---- MODULE Spec2Model ----
(***************************************************************************)
(* Model of hh/core.py: the two-level fetch / extract / aggregate pipeline *)
(* of the hh.ru statistics utility (main, _parse_pages, _parse_page,       *)
(* _get_skills, _get_vacancy_data, _parse_skills, _parse_text).            *)
(*                                                                         *)
(* A character is a one-element atom written as a string ("P", "y", "<");  *)
(* a Python str is a sequence of characters.  The Cyrillic letters are     *)
(* named: "cyr_a" (U+0430), "cyr_A" (U+0410), "cyr_yo" (U+0451) and        *)
(* "cyr_YO" (U+0401).  A Counter (an insertion-ordered dict) is a sequence *)
(* of <<key, count>> pairs in insertion order.                             *)
(***************************************************************************)
EXTENDS Integers, Sequences, FiniteSets, TLC

\* ------------------------------------------------------------------ bounds

\* Largest value of info['pages'] the service reports.
MaxPages == 1

\* Largest number of postings the service lists over all pages of one run.
MaxPostings == 2

\* Largest count of a Counter handed to most_common.
MaxCount == 5

\* Largest number of characters of a text handed to _parse_text, not
\* counting a Cyrillic prefix.
MaxTextLen == 5

\* The page tasks submitted beyond the workers of the outer executor, and
\* the item tasks submitted beyond the workers of an inner executor, when
\* the executors are taken alone.
MorePages == 1

MoreItems == 1

\* ------------------------------------------------------- program constants

MAIN_WORKERS == 8

PAGE_WORKERS == 16

\* -------------------------------------------------------------- characters

UpperCase ==
  << "A", "B", "C", "D", "E", "F", "G", "H", "I", "J", "K", "L", "M",
     "N", "O", "P", "Q", "R", "S", "T", "U", "V", "W", "X", "Y", "Z" >>

LowerCase ==
  << "a", "b", "c", "d", "e", "f", "g", "h", "i", "j", "k", "l", "m",
     "n", "o", "p", "q", "r", "s", "t", "u", "v", "w", "x", "y", "z" >>

\* The class [a-zA-Z] of the regular expression in _parse_text.
IsAsciiLetter(c) ==
  \E i \in 1..26 : c = UpperCase[i] \/ c = LowerCase[i]

\* The class [а-яА-я] of the guard in _parse_text: U+0430..U+044F together
\* with U+0410..U+044F.  U+0401 and U+0451 lie outside both ranges.
IsCyrRange(c) == c \in {"cyr_a", "cyr_A"}

\* str.lower() on one character.
LowerChar(c) ==
  IF \E i \in 1..26 : c = UpperCase[i]
    THEN LowerCase[CHOOSE i \in 1..26 : c = UpperCase[i]]
    ELSE IF c = "cyr_A" THEN "cyr_a"
    ELSE IF c = "cyr_YO" THEN "cyr_yo"
    ELSE c

\* str.lower()
Lower(s) == [i \in 1..Len(s) |-> LowerChar(s[i])]

\* ------------------------------------------------------------ list helpers

\* The elements of a list, as a set.
ToSet(s) == { s[i] : i \in 1..Len(s) }

\* list(S) of a Python set S: some ordering of its elements, each once.
ListsOf(S) ==
  { s \in [1..Cardinality(S) -> S] : \A i, j \in 1..Cardinality(S) : s[i] = s[j] => i = j }

\* sum(lists, []): the concatenation of a list of lists.
RECURSIVE Flatten(_)
Flatten(ls) == IF ls = << >> THEN << >> ELSE Head(ls) \o Flatten(Tail(ls))

\* ---------------------------------------------------------------- Counter

\* dict.get(key, 0) on a Counter
Get(c, k) ==
  IF \E i \in 1..Len(c) : c[i][1] = k
    THEN c[CHOOSE i \in 1..Len(c) : c[i][1] = k][2]
    ELSE 0

\* The keys of a Counter.
Keys(c) == { c[i][1] : i \in 1..Len(c) }

\* self[k] = n: an existing key keeps its place, a new key goes last.
SetItem(c, k, n) ==
  IF \E i \in 1..Len(c) : c[i][1] = k
    THEN [i \in 1..Len(c) |-> IF c[i][1] = k THEN << k, n >> ELSE c[i]]
    ELSE Append(c, << k, n >>)

\* Counter(iterable): one increment per element, in iteration order.  The
\* Counter of the elements before the last is computed once, as c.
RECURSIVE CounterOf(_)
CounterOf(elems) ==
  IF elems = << >> THEN << >>
  ELSE LET e == elems[Len(elems)]
       IN  CHOOSE r \in { SetItem(c, e, Get(c, e) + 1) :
                            c \in { CounterOf(SubSeq(elems, 1, Len(elems) - 1)) } } : TRUE

\* stat = page_counter in place of stat.update(page_counter): the last page
\* merged replaces what was merged before it.
CounterUpdateReplace(c, other) == other

\* Counter.update(other) for a mapping: self[k] = n + self.get(k, 0).  The
\* Counter after the pairs before the last is computed once, as d.
RECURSIVE CounterUpdate(_, _)
CounterUpdate(c, other) ==
  IF other = << >> THEN c
  ELSE LET e == other[Len(other)]
       IN  CHOOSE r \in { SetItem(d, e[1], e[2] + Get(d, e[1])) :
                            d \in { CounterUpdate(c, SubSeq(other, 1, Len(other) - 1)) } } : TRUE

\* ------------------------------------------------------------- most_common

\* One step of a sort that is not stable: pair x goes before the first pair
\* whose count is not larger than its own, so before an earlier pair with
\* the same count.
RECURSIVE InsertDescUnstable(_, _)
InsertDescUnstable(sorted, x) ==
  IF sorted = << >> THEN << x >>
  ELSE IF Head(sorted)[2] <= x[2]
    THEN << x >> \o sorted
    ELSE << Head(sorted) >> \o InsertDescUnstable(Tail(sorted), x)

\* sorted(..., key=itemgetter(1), reverse=True), one step: pair x goes
\* behind every pair whose count is not smaller than its own.
RECURSIVE InsertDesc(_, _)
InsertDesc(sorted, x) ==
  IF sorted = << >> THEN << x >>
  ELSE IF Head(sorted)[2] < x[2]
    THEN << x >> \o sorted
    ELSE << Head(sorted) >> \o InsertDesc(Tail(sorted), x)

\* sorted(items, key=itemgetter(1), reverse=True): a stable sort.
RECURSIVE SortedDesc(_)
SortedDesc(items) ==
  IF items = << >> THEN << >>
  ELSE InsertDesc(SortedDesc(SubSeq(items, 1, Len(items) - 1)), items[Len(items)])

\* max(it, key=itemgetter(1)): the first pair with the largest count.
MaxFirst(items) ==
  items[CHOOSE i \in 1..Len(items) :
          /\ \A j \in 1..Len(items) : items[j][2] <= items[i][2]
          /\ \A j \in 1..(i - 1) : items[j][2] < items[i][2]]

\* (k, order, elem) < (k', order', elem') for the tuples of heapq.nlargest,
\* whose orders differ.
TupleLess(x, y) == x[1] < y[1] \/ (x[1] = y[1] /\ x[2] < y[2])

\* result[0] of the heap: its smallest tuple.
HeapTop(heap) == CHOOSE x \in heap : \A y \in heap : y = x \/ TupleLess(x, y)

\* The loop of heapq.nlargest over the elements from position i on: an
\* element whose count exceeds the top's replaces the top.
RECURSIVE HeapLoop(_, _, _, _)
HeapLoop(heap, items, i, order) ==
  IF i > Len(items) THEN heap
  ELSE IF HeapTop(heap)[1] < items[i][2]
    THEN HeapLoop((heap \ { HeapTop(heap) }) \cup { << items[i][2], order, items[i] >> },
                  items, i + 1, order - 1)
    ELSE HeapLoop(heap, items, i + 1, order)

\* result.sort(reverse=True) and the elements of the tuples.
RECURSIVE HeapSorted(_)
HeapSorted(heap) ==
  IF heap = {} THEN << >>
  ELSE LET top == CHOOSE x \in heap : \A y \in heap : y = x \/ TupleLess(y, x)
       IN  << top[3] >> \o HeapSorted(heap \ { top })

\* s[:n] for n >= 0
Slice(s, n) == SubSeq(s, 1, IF n < Len(s) THEN n ELSE Len(s))

\* heapq.nlargest(n, items, key=itemgetter(1))
NLargest(n, items) ==
  IF n = 1
    THEN IF items = << >> THEN << >> ELSE << MaxFirst(items) >>
  ELSE IF n >= Len(items)
    THEN Slice(SortedDesc(items), n)
  ELSE IF n <= 0
    THEN << >>
  ELSE HeapSorted(HeapLoop({ << items[i][2], 1 - i, items[i] >> : i \in 1..n },
                           items, n + 1, 0 - n))

\* Counter.most_common(n) for an n that is not None.
MostCommon(counter, n) == NLargest(n, counter)

\* main, lines 291-292: limit 0 stands for an ARGS.limit that is None or 0.
RawResult(counter, limit) ==
  MostCommon(counter, IF limit # 0 THEN limit ELSE Len(counter))

\* Keys of the Counters handed to most_common.
RankKeys == { "a", "b", "c" }

\* The Counters over RankKeys: each key at most once, counts 1..MaxCount.
RankCounters ==
  { c \in UNION { [1..n -> RankKeys \X (1..MaxCount)] : n \in 0..Cardinality(RankKeys) } :
      \A i, j \in 1..Len(c) : c[i][1] = c[j][1] => i = j }

\* Values of ARGS.limit.
Limits == (0 - 1)..(Cardinality(RankKeys) + 1)

\* ------------------------------------------------------------- _parse_text

\* The stoplist of _parse_text.
exclude ==
  {
    << "u", "l" >>, << "s", "t", "r", "o", "n", "g" >>, << "p" >>,
    << "l", "i" >>, << "b", "r" >>, << "s", "t", "r", "o", "n", "g" >>,
    << "a" >>, << "e", "m" >>, << "o", "l" >>,
    << "c", "o", "m" >>, << "i", "o" >>, << "q", "u", "o", "t" >>,
    << "q", "u", "o", "t", "e" >>, << "j", "u", "n", "i", "o", "r" >>, << "h", "r" >>,
    << "m", "i", "d", "d", "l", "e" >>, << "t", "e", "a", "m", "l", "e", "a", "d" >>, << "s", "e", "n", "i", "o", "r" >>
  }

\* The guard with {4} in place of {5}.
HasCyrRun4(text) ==
  \E i \in 1..(Len(text) - 3) : \A j \in 0..3 : IsCyrRange(text[i + j])

\* re.search(r'[а-яА-я]{5}', text): five consecutive characters of the class.
HasCyrRun(text) ==
  \E i \in 1..(Len(text) - 4) : \A j \in 0..4 : IsCyrRange(text[i + j])

\* The end of the match of [a-zA-Z]+ that starts at position i: the
\* quantifier is greedy.
RECURSIVE MatchEnd(_, _)
MatchEnd(text, i) ==
  IF i < Len(text) /\ IsAsciiLetter(text[i + 1]) THEN MatchEnd(text, i + 1) ELSE i

\* re.findall from position i on: the scan skips what does not match and
\* goes on behind each match.
RECURSIVE FindAllFrom(_, _)
FindAllFrom(text, i) ==
  IF i > Len(text) THEN << >>
  ELSE IF ~IsAsciiLetter(text[i]) THEN FindAllFrom(text, i + 1)
  ELSE << SubSeq(text, i, MatchEnd(text, i)) >> \o FindAllFrom(text, MatchEnd(text, i) + 1)

\* re.findall(r'[a-zA-Z]+', text): the list of the matches, left to right.
FindAll(text) == FindAllFrom(text, 1)

\* _parse_text without skills -= exclude.
ParseTextKeepAll(text) ==
  IF HasCyrRun(text)
    THEN { Lower(w) : w \in ToSet(FindAll(text)) }
    ELSE {}

\* _parse_text(text): the set it returns.
ParseText(text) ==
  IF HasCyrRun(text)
    THEN { Lower(w) : w \in ToSet(FindAll(text)) } \ exclude
    ELSE {}

\* ----------------------------------------------------------- _parse_skills

\* json_.get(key, default) on a JSON object (a record).
JsonGet(json, key, default) ==
  IF key \in DOMAIN json THEN json[key] ELSE default

\* The set key_skills holds when _parse_skills reaches its return.
SkillSet(json, desc) ==
  LET key_skills == JsonGet(json, "key_skills", << >>)
      names == { Lower(key_skills[i].name) : i \in 1..Len(key_skills) }
  IN  IF desc
        THEN names \cup ParseText(JsonGet(json, "description", << >>))
        ELSE names

\* _parse_skills with a list comprehension in place of the set comprehension,
\* and no description mining: the lowered names, repeats kept.
ParseSkillsList(json, desc) ==
  LET key_skills == JsonGet(json, "key_skills", << >>)
  IN  { [i \in 1..Len(key_skills) |-> Lower(key_skills[i].name)] }

\* _parse_skills(json_): list(key_skills), in one of the orders a set may
\* be iterated in.
ParseSkills(json, desc) == ListsOf(SkillSet(json, desc))

\* ---------------------------------------------------------------- _get_title

\* Python's None.
None == "None"

\* _get_title with json_['id'] and json_['name'] in place of json_.get: a
\* missing key raises KeyError.
GetTitleSubscript(json) ==
  IF "id" \in DOMAIN json /\ "name" \in DOMAIN json
    THEN [st |-> "returned",
          result |-> << << json.id, json.name, JsonGet(json, "alternate_url", "...") >> >>]
    ELSE [st |-> "raised", result |-> << "KeyError" >>]

\* _get_title(json_): how the call ends, and the list it returns.
GetTitle(json) ==
  LET url_key == JsonGet(json, "alternate_url", "...")
      id_ == JsonGet(json, "id", None)
      title == JsonGet(json, "name", None)
  IN  [st |-> "returned", result |-> << << id_, title, url_key >> >>]

\* ------------------------------------------------------------- the service

\* Posting ids the listing endpoint may return.
Ids == { "v1", "v2" }

S_Django == << "D", "j", "a", "n", "g", "o" >>

S_Python == << "P", "y", "t", "h", "o", "n" >>

S_python == << "p", "y", "t", "h", "o", "n" >>

S_Flask == << "F", "l", "a", "s", "k" >>

S_django == << "d", "j", "a", "n", "g", "o" >>

S_flask == << "f", "l", "a", "s", "k" >>

Cyr5 == << "cyr_a", "cyr_A", "cyr_a", "cyr_a", "cyr_a" >>

\* The detail record of each posting.  v1 has no description.  v2 names one
\* skill in two letter cases, and its description, which has markup, repeats
\* one of its key skills twice.
Detail(id) ==
  CASE id = "v1" ->
         [ id |-> "v1",
           key_skills |-> << [name |-> S_Django], [name |-> S_Python] >> ]
    [] id = "v2" ->
         [ id |-> "v2",
           key_skills |-> << [name |-> S_python], [name |-> S_Flask],
                             [name |-> S_Python] >>,
           description |-> Cyr5 \o << "<", "p", ">" >> \o S_Flask \o << " " >>
                           \o S_flask \o << "<", "/", "p", ">" >> ]

\* _get_vacancy_data(v_id) when the detail fetch succeeds, in skill mode: the
\* lists _parse_skills may return for the record of v_id.
GetVacancyData == [id \in Ids, desc \in BOOLEAN |-> ParseSkills(Detail(id), desc)]

\* Values of info['found'] the service may report.  main only passes found
\* on to its output, so one value, distinct from the 0 the model starts
\* with, stands for all.
FoundValues == { 3 }

\* Listing pages the service may return when it has n postings left to
\* list: up to n ids, repeats allowed.
Listings(n) == UNION { [1..k -> Ids] : k \in 0..n }

\* Page numbers a fetch can be counted for.
PageNums == 0..(MaxPages + 1)

\* ------------------------------------------------------------------- state

VARIABLES
  ARGS,       \* the parsed arguments: [desc]
  pc,         \* where main is: "main", "parse_pages", "as_completed",
              \* "returned" (from _parse_pages), "raised" (out of main)
  info,       \* main's info, the answer to the initial listing call
  found,      \* main's found
  num_pages,  \* main's num_pages
  fs,         \* _parse_pages' futures, by page number: [st, ids, items, res, exc]
  stat,       \* _parse_pages' stat
  yielded,    \* the pages as_completed has yielded, in order
  printed,    \* what print(e) has written
  ret,        \* the values _parse_pages returned: << >> before it returns
  net,        \* the fetches issued: [init, list, item], the last two by page
  call,       \* one call of a function taken alone: [fn, st, args, result]
  pool        \* the two executors taken alone, their futures counted by state

vars ==
  << ARGS, pc, info, found, num_pages, fs, stat, yielded, printed, ret, net, call, pool >>

\* range(n + 1)
RangeInclusive(n) == 0..n

\* range(n)
Range(n) == 0..(n - 1)

\* num_pages = info['pages'], the last page left out
NumPagesNoLast(pages) == pages

\* num_pages = info['pages'] + 1
NumPages(pages) == pages + 1

\* A future of the outer executor that no worker has taken yet.
NewPage == [st |-> "queued", ids |-> << >>, items |-> << >>, res |-> << >>, exc |-> ""]

\* A future of the inner executor that no worker has taken yet.
NewItem == [st |-> "queued", res |-> << >>]

\* The number of postings the service has listed so far.
RECURSIVE Listed(_)
Listed(P) ==
  IF P = {} THEN 0
  ELSE LET p == CHOOSE q \in P : TRUE
       IN  Len(fs[p].ids) + Listed(P \ {p})

\* Page tasks a worker of the outer pool is running.
RunningPages == { p \in DOMAIN fs : fs[p].st \in {"listing", "items"} }

\* Item tasks of page p a worker of the inner pool is running.
RunningItems(p) ==
  { i \in 1..Len(fs[p].items) : fs[p].items[i].st = "running" }

\* wait(fs, return_when=FIRST_EXCEPTION): every future is done, or one has
\* raised.
FirstException(p) ==
  \/ \A i \in 1..Len(fs[p].items) : fs[p].items[i].st \in {"ok", "failed"}
  \/ \E i \in 1..Len(fs[p].items) : fs[p].items[i].st = "failed"

\* future.done() for every future of _get_skills' wait.
AllCompleted(p) ==
  \A i \in 1..Len(fs[p].items) : fs[p].items[i].st \in {"ok", "failed"}

\* No function is being called alone.
NoCall == [fn |-> "", st |-> "", args |-> << >>, result |-> << >>]

\* The executors are not being taken alone.
NoPool ==
  [scene |-> "", queued |-> 0, listing |-> 0, items |-> 0, finished |-> 0,
   iq |-> 0, ir |-> 0, idone |-> 0]

Init ==
  /\ ARGS \in [desc : BOOLEAN]
  /\ pc = "main"
  /\ info = [found |-> 0, pages |-> 0]
  /\ found = 0
  /\ num_pages = 0
  /\ fs = << >>
  /\ stat = << >>
  /\ yielded = << >>
  /\ printed = << >>
  /\ ret = << >>
  /\ net = [init |-> 0, list |-> [p \in PageNums |-> 0], item |-> [p \in PageNums |-> 0]]
  /\ call = NoCall
  /\ pool = NoPool

\* main, lines 286-288: the initial listing call.  It raises, and the
\* exception leaves main, or it returns found and pages.
MainListing ==
  /\ pc = "main"
  /\ net' = [net EXCEPT !.init = @ + 1]
  /\ \/ /\ pc' = "raised"
        /\ UNCHANGED << info, found, num_pages >>
     \/ \E f \in FoundValues, pages \in (0 - 2)..MaxPages :
          /\ info' = [found |-> f, pages |-> pages]
          /\ found' = f
          /\ num_pages' = NumPages(pages)
          /\ pc' = "parse_pages"
  /\ UNCHANGED << call, pool, ARGS, fs, stat, yielded, printed, ret >>

\* _parse_pages, lines 160-163: the empty Counter, and one submitted task
\* per page of range(num_pages).
ParsePagesSubmit ==
  /\ pc = "parse_pages"
  /\ stat' = << >>
  /\ fs' = [p \in Range(num_pages) |-> NewPage]
  /\ pc' = "as_completed"
  /\ UNCHANGED << call, pool, ARGS, info, found, num_pages, yielded, printed, ret, net >>

\* A worker of the outer pool takes page p: _parse_page calls
\* _ids_from_page, which issues the listing fetch.
PageStart(p) ==
  /\ fs[p].st = "queued"
  /\ Cardinality(RunningPages) < MAIN_WORKERS
  /\ fs' = [fs EXCEPT ![p].st = "listing"]
  /\ net' = [net EXCEPT !.list[p] = @ + 1]
  /\ UNCHANGED << call, pool, ARGS, pc, info, found, num_pages, stat, yielded, printed, ret >>

\* _parse_page with a retry: a listing fetch that raises puts the page back
\* in the queue.
PageListedRetry(p) ==
  /\ fs[p].st = "listing"
  /\ \/ fs' = [fs EXCEPT ![p].st = "queued"]
     \/ \E ids \in Listings(MaxPostings - Listed(DOMAIN fs)) :
          fs' = [fs EXCEPT ![p].st = "items",
                           ![p].ids = ids,
                           ![p].items = [i \in 1..Len(ids) |-> NewItem]]
  /\ UNCHANGED << call, pool, ARGS, pc, info, found, num_pages, stat, yielded, printed, ret, net >>

\* _parse_page catching the exception of the listing fetch and going on to
\* _get_skills with an id it did not get from the listing.
PageListedIgnoreError(p) ==
  /\ fs[p].st = "listing"
  /\ \/ fs' = [fs EXCEPT ![p].st = "items",
                         ![p].exc = "list_error",
                         ![p].items = << NewItem >>]
     \/ \E ids \in Listings(MaxPostings - Listed(DOMAIN fs)) :
          fs' = [fs EXCEPT ![p].st = "items",
                           ![p].ids = ids,
                           ![p].items = [i \in 1..Len(ids) |-> NewItem]]
  /\ UNCHANGED << call, pool, ARGS, pc, info, found, num_pages, stat, yielded, printed, ret, net >>

\* The listing fetch of page p ends.  It raises and the page task fails,
\* or _get_skills submits one item task per listed id.
PageListed(p) ==
  /\ fs[p].st = "listing"
  /\ \/ fs' = [fs EXCEPT ![p].st = "failed", ![p].exc = "list_error"]
     \/ \E ids \in Listings(MaxPostings - Listed(DOMAIN fs)) :
          fs' = [fs EXCEPT ![p].st = "items",
                           ![p].ids = ids,
                           ![p].items = [i \in 1..Len(ids) |-> NewItem]]
  /\ UNCHANGED << call, pool, ARGS, pc, info, found, num_pages, stat, yielded, printed, ret, net >>

\* A worker of the inner pool takes item i of page p: _get_vacancy_data
\* issues the detail fetch.
ItemStart(p, i) ==
  /\ fs[p].st = "items"
  /\ fs[p].items[i].st = "queued"
  /\ Cardinality(RunningItems(p)) < PAGE_WORKERS
  /\ fs' = [fs EXCEPT ![p].items[i].st = "running"]
  /\ net' = [net EXCEPT !.item[p] = @ + 1]
  /\ UNCHANGED << call, pool, ARGS, pc, info, found, num_pages, stat, yielded, printed, ret >>

\* The detail fetch of item i of page p ends.  It raises and the item
\* future holds the exception, or _parse_skills extracts the record.
ItemDone(p, i) ==
  /\ fs[p].st = "items"
  /\ fs[p].items[i].st = "running"
  /\ \/ fs' = [fs EXCEPT ![p].items[i].st = "failed"]
     \/ \E r \in GetVacancyData[fs[p].ids[i], ARGS.desc] :
          fs' = [fs EXCEPT ![p].items[i] = [st |-> "ok", res |-> r]]
  /\ UNCHANGED << call, pool, ARGS, pc, info, found, num_pages, stat, yielded, printed, ret, net >>

\* Counter(set(sum(skills, []))): every token of the page counted once.
SkCounterOnce(skills) ==
  LET c == CounterOf(Flatten(skills))
  IN  [i \in 1..Len(c) |-> << c[i][1], 1 >>]

\* Counter(sum(skills, [])) of _parse_page.
SkCounter(skills) == CounterOf(Flatten(skills))

\* _parse_page adding its counter to the stat of _parse_pages itself, from
\* the worker thread, besides returning it.
PageFinishWritesStat(p) ==
  /\ fs[p].st = "items"
  /\ AllCompleted(p)
  /\ IF \E i \in 1..Len(fs[p].items) : fs[p].items[i].st = "failed"
       THEN /\ fs' = [fs EXCEPT ![p].st = "failed", ![p].exc = "item_error"]
            /\ stat' = stat
       ELSE \E compl \in ListsOf(1..Len(fs[p].items)) :
              LET skills == [k \in 1..Len(compl) |-> fs[p].items[compl[k]].res]
              IN  /\ fs' = [fs EXCEPT ![p].st = "done", ![p].res = SkCounter(skills)]
                  /\ stat' = CounterUpdate(stat, SkCounter(skills))
  /\ UNCHANGED << call, pool, ARGS, pc, info, found, num_pages, yielded, printed, ret, net >>

\* _get_skills lines 140-142 and _parse_page lines 155-156, once every item
\* future is done: fs.result() re-raises the exception of a failed item and
\* the page task fails; otherwise the results, in the order the set compl
\* is iterated in, are counted.
PageFinish(p) ==
  /\ fs[p].st = "items"
  /\ AllCompleted(p)
  /\ IF \E i \in 1..Len(fs[p].items) : fs[p].items[i].st = "failed"
       THEN fs' = [fs EXCEPT ![p].st = "failed", ![p].exc = "item_error"]
       ELSE \E compl \in ListsOf(1..Len(fs[p].items)) :
              LET skills == [k \in 1..Len(compl) |-> fs[p].items[compl[k]].res]
              IN  fs' = [fs EXCEPT ![p].st = "done", ![p].res = SkCounter(skills)]
  /\ UNCHANGED << call, pool, ARGS, pc, info, found, num_pages, stat, yielded, printed, ret, net >>

\* The loop of _parse_pages without its try: the exception of a failed page
\* leaves _parse_pages and main.
MergeNoCatch(p) ==
  /\ pc = "as_completed"
  /\ fs[p].st \in {"done", "failed"}
  /\ \A k \in 1..Len(yielded) : yielded[k] # p
  /\ yielded' = Append(yielded, p)
  /\ IF fs[p].st = "failed"
       THEN /\ pc' = "raised"
            /\ stat' = stat
       ELSE /\ stat' = CounterUpdate(stat, fs[p].res)
            /\ pc' = pc
  /\ UNCHANGED << call, pool, ARGS, info, found, num_pages, fs, printed, ret, net >>

\* The loop of _parse_pages with a return in its except branch: the first
\* failed page ends the run with what was merged so far.
MergeReturnOnError(p) ==
  /\ pc = "as_completed"
  /\ fs[p].st \in {"done", "failed"}
  /\ \A k \in 1..Len(yielded) : yielded[k] # p
  /\ yielded' = Append(yielded, p)
  /\ IF fs[p].st = "failed"
       THEN /\ printed' = Append(printed, fs[p].exc)
            /\ stat' = stat
            /\ ret' = << stat >>
            /\ pc' = "returned"
       ELSE /\ stat' = CounterUpdate(stat, fs[p].res)
            /\ UNCHANGED << printed, ret, pc >>
  /\ UNCHANGED << call, pool, ARGS, info, found, num_pages, fs, net >>

\* _parse_pages, lines 164-170: as_completed yields a finished page future;
\* its exception is printed, or its counter is added to stat.
Merge(p) ==
  /\ pc = "as_completed"
  /\ fs[p].st \in {"done", "failed"}
  /\ \A k \in 1..Len(yielded) : yielded[k] # p
  /\ yielded' = Append(yielded, p)
  /\ IF fs[p].st = "failed"
       THEN /\ printed' = Append(printed, fs[p].exc)
            /\ stat' = stat
       ELSE /\ stat' = CounterUpdate(stat, fs[p].res)
            /\ printed' = printed
  /\ UNCHANGED << call, pool, ARGS, pc, info, found, num_pages, fs, ret, net >>

\* _parse_pages with a return inside its loop: it returns stat as soon as one
\* future has been yielded.
ParsePagesReturnEarly ==
  /\ pc = "as_completed"
  /\ yielded # << >>
  /\ ret' = << stat >>
  /\ pc' = "returned"
  /\ UNCHANGED << call, pool, ARGS, info, found, num_pages, fs, stat, yielded, printed, net >>

\* _parse_pages, line 172: every future has been yielded; return stat.
ParsePagesReturn ==
  /\ pc = "as_completed"
  /\ \A p \in DOMAIN fs : \E k \in 1..Len(yielded) : yielded[k] = p
  /\ ret' = << stat >>
  /\ pc' = "returned"
  /\ UNCHANGED << call, pool, ARGS, info, found, num_pages, fs, stat, yielded, printed, net >>

Next ==
  \/ MainListing
  \/ ParsePagesSubmit
  \/ \E p \in DOMAIN fs : PageStart(p)
  \/ \E p \in DOMAIN fs : PageListed(p)
  \/ \E p \in DOMAIN fs : \E i \in 1..Len(fs[p].items) : ItemStart(p, i)
  \/ \E p \in DOMAIN fs : \E i \in 1..Len(fs[p].items) : ItemDone(p, i)
  \/ \E p \in DOMAIN fs : PageFinish(p)
  \/ \E p \in DOMAIN fs : Merge(p)
  \/ ParsePagesReturn

Spec == Init /\ [][Next]_vars

\* The steps of the thread of main inside _parse_pages.
MainThread ==
  \/ ParsePagesSubmit
  \/ \E p \in DOMAIN fs : Merge(p)
  \/ ParsePagesReturn

\* The steps of the workers of the outer executor.
PageWorkers == \E p \in DOMAIN fs : PageStart(p) \/ PageListed(p) \/ PageFinish(p)

\* The steps of the workers of the inner executors.
ItemWorkers ==
  \E p \in DOMAIN fs : \E i \in 1..Len(fs[p].items) : ItemStart(p, i) \/ ItemDone(p, i)

\* The threads are scheduled fairly and every fetch ends: a thread that can
\* take a step takes one.  Nothing is assumed of the initial listing call.
Fairness ==
  /\ WF_vars(MainThread)
  /\ WF_vars(PageWorkers)
  /\ WF_vars(ItemWorkers)

SpecFair == Spec /\ Fairness

\* ------------------------------------------------- functions taken alone

\* The pipeline's variables as Init leaves them, description mining off.
PipelineIdle ==
  /\ ARGS = [desc |-> FALSE]
  /\ pc = "main"
  /\ info = [found |-> 0, pages |-> 0]
  /\ found = 0
  /\ num_pages = 0
  /\ fs = << >>
  /\ stat = << >>
  /\ yielded = << >>
  /\ printed = << >>
  /\ ret = << >>
  /\ net = [init |-> 0, list |-> [p \in PageNums |-> 0], item |-> [p \in PageNums |-> 0]]

PipelineVars == << ARGS, pc, info, found, num_pages, fs, stat, yielded, printed, ret, net >>

\* A call about to be made.
Called(fn, args) == [fn |-> fn, st |-> "called", args |-> args, result |-> << >>]

\* The calls of main's ranking, lines 291-292.
RankCalls == { Called("most_common", << c, l >>) : c \in RankCounters, l \in Limits }

\* main, lines 291-292.
MainRank ==
  /\ call.fn = "most_common"
  /\ call.st = "called"
  /\ call' = [call EXCEPT !.st = "returned",
                          !.result = RawResult(call.args[1], call.args[2])]
  /\ UNCHANGED << PipelineVars, pool >>

\* The calls of _parse_text: texts of up to MaxTextLen characters, alone and
\* behind five Cyrillic letters, and texts with each word of the stoplist in
\* lower and in upper case.
TextAlphabet == { "P", "y", "cyr_a", "cyr_YO", " " }

Bodies == UNION { [1..n -> TextAlphabet] : n \in 0..MaxTextLen }

\* str.upper() on an ASCII word.
Upper(s) ==
  [i \in 1..Len(s) |->
     IF \E k \in 1..26 : s[i] = LowerCase[k]
       THEN UpperCase[CHOOSE k \in 1..26 : s[i] = LowerCase[k]]
       ELSE s[i]]

StopTexts ==
  { Cyr5 \o << "<" >> \o w \o << ">" >> \o S_Flask : w \in exclude }
    \cup { Cyr5 \o << "<" >> \o Upper(w) \o << ">" >> \o S_Flask : w \in exclude }

Texts == Bodies \cup { Cyr5 \o b : b \in Bodies } \cup StopTexts

TextCalls == { Called("_parse_text", << t >>) : t \in Texts }

\* The calls of _get_title: records with any of id, name and alternate_url.
TitleValues(key) ==
  CASE key = "id" -> { "v1", "v2" }
    [] key = "name" -> { "Python developer", "QA engineer" }
    [] key = "alternate_url" -> { "https://hh.ru/vacancy/v1", "https://hh.ru/vacancy/v2" }

TitleRecords ==
  UNION { { json \in [D -> UNION { TitleValues(k) : k \in D }] :
              \A k \in D : json[k] \in TitleValues(k) } :
          D \in SUBSET { "id", "name", "alternate_url" } }

TitleCalls == { Called("_get_title", << json >>) : json \in TitleRecords }

\* _parse_text(text), lines 122-134.
ParseTextCall ==
  /\ call.fn = "_parse_text"
  /\ call.st = "called"
  /\ call' = [call EXCEPT !.st = "returned", !.result = ParseText(call.args[1])]
  /\ UNCHANGED << PipelineVars, pool >>

\* _get_title(json_), lines 103-108.
GetTitleCall ==
  /\ call.fn = "_get_title"
  /\ call.st = "called"
  /\ call' = [call EXCEPT !.st = GetTitle(call.args[1]).st,
                          !.result = GetTitle(call.args[1]).result]
  /\ UNCHANGED << PipelineVars, pool >>

InitFn ==
  /\ PipelineIdle
  /\ pool = NoPool
  /\ call \in RankCalls \cup TextCalls \cup TitleCalls

NextFn == MainRank \/ ParseTextCall \/ GetTitleCall

\* One call of most_common, _parse_text or _get_title, on any of the inputs.
SpecFn == InitFn /\ [][NextFn]_vars

\* ------------------------------------------------ executors taken alone

\* The futures of the two executors counted by state, for a run with more
\* pages than the outer executor has workers, in which one page lists more
\* ids than an inner executor has workers and the other pages list none or
\* fail.  queued, listing, items, finished count the page futures that wait
\* for a worker, are in _ids_from_page, are in _get_skills and are done;
\* iq, ir, idone count the item futures of the page in _get_skills that
\* wait for a worker, are in _get_vacancy_data and are done.
InitPool ==
  /\ PipelineIdle
  /\ call = NoCall
  /\ pool = [scene |-> "pool", queued |-> MAIN_WORKERS + MorePages, listing |-> 0,
             items |-> 0, finished |-> 0, iq |-> 0, ir |-> 0, idone |-> 0]

\* A page task starts whenever it is queued, whatever the number of page
\* tasks that are running.
PoolPageStartUnbounded ==
  /\ pool.queued > 0
  /\ pool' = [pool EXCEPT !.queued = @ - 1, !.listing = @ + 1]
  /\ UNCHANGED << PipelineVars, call >>

\* ThreadPoolExecutor(max_workers=MAIN_WORKERS), line 162: a worker of the
\* outer executor takes a queued page task when fewer than MAIN_WORKERS are
\* running, and issues its listing fetch.
PoolPageStart ==
  /\ pool.queued > 0
  /\ pool.listing + pool.items < MAIN_WORKERS
  /\ pool' = [pool EXCEPT !.queued = @ - 1, !.listing = @ + 1]
  /\ UNCHANGED << PipelineVars, call >>

\* A listing fetch ends: it raises or lists nothing and the page task is
\* done, or, once in the run, it lists PAGE_WORKERS + MoreItems ids and
\* _get_skills submits an item task for each.
PoolPageListed ==
  /\ pool.listing > 0
  /\ \/ pool' = [pool EXCEPT !.listing = @ - 1, !.finished = @ + 1]
     \/ /\ pool.items = 0
        /\ pool.idone = 0
        /\ pool' = [pool EXCEPT !.listing = @ - 1, !.items = 1,
                                !.iq = PAGE_WORKERS + MoreItems]
  /\ UNCHANGED << PipelineVars, call >>

\* ThreadPoolExecutor(max_workers=PAGE_WORKERS), line 138: a worker of the
\* inner executor takes a queued item task when fewer than PAGE_WORKERS are
\* running, and issues its detail fetch.
PoolItemStart ==
  /\ pool.iq > 0
  /\ pool.ir < PAGE_WORKERS
  /\ pool' = [pool EXCEPT !.iq = @ - 1, !.ir = @ + 1]
  /\ UNCHANGED << PipelineVars, call >>

\* A detail fetch ends, in a result or in an exception.
PoolItemDone ==
  /\ pool.ir > 0
  /\ pool' = [pool EXCEPT !.ir = @ - 1, !.idone = @ + 1]
  /\ UNCHANGED << PipelineVars, call >>

\* wait(fs, ALL_COMPLETED) returns and the page task ends.
PoolPageFinish ==
  /\ pool.items = 1
  /\ pool.iq = 0
  /\ pool.ir = 0
  /\ pool' = [pool EXCEPT !.items = 0, !.finished = @ + 1]
  /\ UNCHANGED << PipelineVars, call >>

NextPool ==
  \/ PoolPageStart
  \/ PoolPageListed
  \/ PoolItemStart
  \/ PoolItemDone
  \/ PoolPageFinish

SpecPool == InitPool /\ [][NextPool]_vars

\* ------------------------------------------------------- claims' vocabulary

\* The page tasks that returned a counter, and those that raised.
OkPages == { p \in DOMAIN fs : fs[p].st = "done" }

FailedPages == { p \in DOMAIN fs : fs[p].st = "failed" }

\* The skill set the record of each posting yields, with and without
\* description mining.
Skills == [id \in Ids, desc \in BOOLEAN |-> SkillSet(Detail(id), desc)]

\* Every token a posting of the service can yield, and one it cannot.
AllTokens ==
  UNION { Skills[id, d] : id \in Ids, d \in BOOLEAN } \cup { << "p" >> }

\* The tokens among them that str.lower() leaves unchanged.
LowerTokens == { t \in AllTokens : t = Lower(t) }

\* The listing entries of the successful pages.
OkEntries == { pi \in (DOMAIN fs) \X (1..MaxPostings) :
                 pi[1] \in OkPages /\ pi[2] <= Len(fs[pi[1]].ids) }

\* The skill set the record of listing entry pi yields.
EntrySkills(pi) == Skills[fs[pi[1]].ids[pi[2]], ARGS.desc]

\* A Counter holds each key once.
NoDupKeys(c) == \A i, j \in 1..Len(c) : c[i][1] = c[j][1] => i = j

\* Two Counters are the same mapping, whatever their insertion orders.
SameMapping(c, d) ==
  /\ Keys(c) = Keys(d)
  /\ \A k \in Keys(c) : Get(c, k) = Get(d, k)

\* The sum over the pages P of the count page p's counter gives token t.
RECURSIVE PagesSum(_, _)
PagesSum(P, t) ==
  IF P = {} THEN 0
  ELSE LET p == CHOOSE q \in P : TRUE
       IN  Get(fs[p].res, t) + PagesSum(P \ {p}, t)

\* The counters of the successful pages among 0..n, merged in page order.
RECURSIVE MergedInPageOrder(_)
MergedInPageOrder(n) ==
  IF n < 0 THEN << >>
  ELSE IF n \in OkPages
    THEN CounterUpdate(MergedInPageOrder(n - 1), fs[n].res)
    ELSE MergedInPageOrder(n - 1)

\* The items of page p whose detail fetch failed.
FailedItems(p) == { i \in 1..Len(fs[p].items) : fs[p].items[i].st = "failed" }

\* ------------------------------------------------------------------ claims

C2_ItemFailureKeepsPage ==
  \A p \in DOMAIN fs :
    (fs[p].st \in {"done", "failed"} /\ Cardinality(FailedItems(p)) = 1) =>
      /\ fs[p].st = "done"
      /\ \A t \in AllTokens :
           Get(fs[p].res, t) =
             Cardinality({ i \in 1..Len(fs[p].items) :
                             fs[p].items[i].st = "ok" /\ t \in ToSet(fs[p].items[i].res) })

\* C3: failed pages do not make _parse_pages raise; the table it returns is
\* the sum of the counters of the pages that succeeded, and only of those.
C3_FailedPagesSkipped ==
  /\ pc = "raised" => FailedPages = {}
  /\ pc = "returned" =>
       /\ \A t \in AllTokens \cup Keys(ret[1]) : Get(ret[1], t) = PagesSum(OkPages, t)
       /\ Len(printed) = Cardinality(FailedPages)

\* C3 witness: the run returned a non-empty table with one page failed and
\* one page merged.
C3_Witness ==
  /\ pc = "returned"
  /\ FailedPages # {}
  /\ \E p \in OkPages : fs[p].res # << >>
  /\ ret[1] # << >>

\* C4: the returned counts do not depend on the order in which the page
\* results were merged: they are those of a merge in page order.
C4_MergeOrderIndependent ==
  pc = "returned" =>
    LET inPageOrder == MergedInPageOrder(MaxPages + 1)
    IN  SameMapping(ret[1], inPageOrder)

\* C4 witness: page 1 was merged before page 0, both share a token, and the
\* returned table differs from the page-order merge in insertion order only.
C4_Witness ==
  /\ pc = "returned"
  /\ yielded = << 1, 0 >>
  /\ OkPages = {0, 1}
  /\ Keys(fs[0].res) \cap Keys(fs[1].res) # {}
  /\ ret[1] # MergedInPageOrder(MaxPages + 1)

\* C5: _parse_pages returns, with the aggregate, the number of page tasks
\* that failed.
C5_ReturnsFailedCount ==
  pc = "returned" => (Len(ret) = 2 /\ ret[2] = Cardinality(FailedPages))

\* C6: an exception leaves main only from the initial listing call, before
\* any page task or fetch was started; once pages are submitted, no failure
\* of a listing or an item leaves the run.
C6_OnlyInitialCallFatal ==
  /\ pc = "raised" =>
       /\ DOMAIN fs = {}
       /\ net.init = 1
       /\ \A p \in PageNums : net.list[p] = 0 /\ net.item[p] = 0
  /\ pc \notin {"as_completed", "returned"} =>
       \A p \in DOMAIN fs : fs[p].st # "failed" /\ FailedItems(p) = {}

\* C6 witness: the initial listing call failed and main raised.
C6_Witness == pc = "raised" /\ net.init = 1

\* C7 as stated: with totalPages = 0 the run returns an empty aggregate and
\* found, and issues no listing call besides the initial one.
C7_ZeroPagesNoFetch ==
  (pc = "returned" /\ info.pages = 0) =>
    /\ ret[1] = << >>
    /\ found = info.found
    /\ net.init = 1
    /\ \A p \in PageNums : net.list[p] = 0 /\ net.item[p] = 0

\* C7 amended: with totalPages = 0 the run submits exactly page 0, lists it
\* once, fetches items for that page only, and returns found of the initial
\* call with the counter of page 0 (empty when page 0 failed).
C7_ZeroPagesOnePage ==
  (pc = "returned" /\ info.pages = 0) =>
    /\ found = info.found
    /\ net.init = 1
    /\ DOMAIN fs = {0}
    /\ net.list[0] = 1
    /\ \A p \in PageNums \ {0} : net.list[p] = 0 /\ net.item[p] = 0
    /\ SameMapping(ret[1], IF fs[0].st = "done" THEN fs[0].res ELSE << >>)

\* C7 witness: totalPages = 0, found = 3, and the run returned a non-empty
\* table built from page 0.
C7_Witness ==
  /\ pc = "returned"
  /\ info.pages = 0
  /\ found = 3
  /\ ret[1] # << >>

\* C8: with num_pages <= 0, _parse_pages submits no page task, issues no
\* fetch, prints no error and returns an empty aggregate.
C8_NonPositivePageCount ==
  (pc \in {"as_completed", "returned"} /\ num_pages <= 0) =>
    /\ DOMAIN fs = {}
    /\ \A p \in PageNums : net.list[p] = 0 /\ net.item[p] = 0
    /\ printed = << >>
    /\ stat = << >>
    /\ pc = "returned" => ret = << << >> >>

\* C8 witness: _parse_pages returned from a call with a negative num_pages.
C8_Witness == pc = "returned" /\ num_pages < 0 /\ ret = << << >> >>

\* C9: the extraction of a record yields each of its lowercase tokens once,
\* and a page counter counts a token once per item whose list holds it.
C9_OneIncrementPerRecord ==
  \A p \in DOMAIN fs :
    /\ \A i \in 1..Len(fs[p].items) :
         fs[p].items[i].st = "ok" =>
           LET r == fs[p].items[i].res
           IN  /\ \A a, b \in 1..Len(r) : r[a] = r[b] => a = b
               /\ \A a \in 1..Len(r) : r[a] \in LowerTokens
    /\ fs[p].st = "done" =>
         \A t \in AllTokens \cup Keys(fs[p].res) :
           Get(fs[p].res, t) =
             Cardinality({ i \in 1..Len(fs[p].items) : t \in ToSet(fs[p].items[i].res) })

\* C9 witness: with description mining, a page listing only v2 (python in
\* key_skills in two letter cases, flask in key_skills and twice in the
\* description) counted python and flask once each.
C9_Witness ==
  /\ ARGS.desc
  /\ \E p \in DOMAIN fs :
       /\ fs[p].st = "done"
       /\ fs[p].ids = << "v2" >>
       /\ Keys(fs[p].res) = { S_python, S_flask }
       /\ Get(fs[p].res, S_python) = 1
       /\ Get(fs[p].res, S_flask) = 1

\* C10: over the run a posting id adds at most one increment per token: no
\* count exceeds the number of distinct ids whose record yields the token.
C10_OneIncrementPerPostingId ==
  pc = "returned" =>
    \A t \in AllTokens :
      Get(ret[1], t) <= Cardinality({ id \in Ids : t \in Skills[id, ARGS.desc] })


\* ---------------------------------------------------------------- C11

\* The number of entries of counter c that rank before entry i: those with a
\* larger count, and those with the same count inserted earlier.
RankOf(c, i) ==
  Cardinality({ j \in 1..Len(c) :
                  c[j][2] > c[i][2] \/ (c[j][2] = c[i][2] /\ j < i) })

\* The entries of c by descending count, ties in insertion order.
Ranking(c) == [k \in 1..Len(c) |-> c[CHOOSE i \in 1..Len(c) : RankOf(c, i) = k - 1]]

FirstN(s, n) == SubSeq(s, 1, IF n < Len(s) THEN n ELSE Len(s))

\* C11: the ranking lists the entries of the aggregate by descending count,
\* entries with equal counts in the order of their insertion; with a positive
\* limit N the output is the first N entries of that ranking, and without a
\* limit it is the whole ranking.
C11_StableRanking ==
  (call.fn = "most_common" /\ call.st = "returned" /\ call.args[2] >= 0)
    => call.result = IF call.args[2] = 0
                       THEN Ranking(call.args[1])
                       ELSE FirstN(Ranking(call.args[1]), call.args[2])

\* The counts {a:3, b:3, c:5} inserted a, b, c and ranked with limit 2 have
\* given [c, a].
C11_Witness ==
  /\ call.fn = "most_common"
  /\ call.st = "returned"
  /\ call.args = << << << "a", 3 >>, << "b", 3 >>, << "c", 5 >> >>, 2 >>
  /\ call.result = << << "c", 5 >>, << "a", 3 >> >>


\* ---------------------------------------------------------------- C12

\* The field of a record, or the given placeholder when the record lacks it.
FieldOr(json, key, placeholder) == IF key \in DOMAIN json THEN json[key] ELSE placeholder

\* C12: in link mode the extraction of a record never fails on a missing
\* field and returns exactly one (id, title, url) triple; a missing
\* alternate_url yields the placeholder "...", a missing id or title yields
\* the placeholder None.
C12_TitleNeverFails ==
  (call.fn = "_get_title" /\ call.st # "called")
    => /\ call.st = "returned"
       /\ call.result = << << FieldOr(call.args[1], "id", "None"),
                              FieldOr(call.args[1], "name", "None"),
                              FieldOr(call.args[1], "alternate_url", "...") >> >>

\* A record with none of the three fields has given (None, None, "..."), and
\* a record with an id alone has given (id, None, "...").
C12_Witness ==
  /\ call.fn = "_get_title"
  /\ call.st = "returned"
  /\ DOMAIN call.args[1] \subseteq { "id" }
  /\ call.result[1][3] = "..."
  /\ call.result[1][2] = "None"


\* ---------------------------------------------------------------- C13

\* The Cyrillic letters of the texts, the two forms of the letter yo among
\* them.
IsCyrLetter(c) == c \in { "cyr_a", "cyr_A", "cyr_yo", "cyr_YO" }

\* The text has five consecutive Cyrillic letters somewhere.
HasCyrLetterRun(text) ==
  \E i \in 1..(Len(text) - 4) : \A j \in 0..4 : IsCyrLetter(text[i + j])

\* C13: for every text that contains no run of 5 or more consecutive Cyrillic
\* letters, _parse_text returns the empty set, whatever ASCII words the text
\* contains.
C13_NoCyrillicNoSkills ==
  (call.fn = "_parse_text" /\ call.st = "returned" /\ ~HasCyrLetterRun(call.args[1]))
    => call.result = {}

\* A text of four Cyrillic letters and the ASCII word "y" has given the empty
\* set.
C13_Witness ==
  /\ call.fn = "_parse_text"
  /\ call.st = "returned"
  /\ call.args[1] = << "cyr_a", "cyr_a", "cyr_a", "cyr_a", "y" >>
  /\ call.result = {}

\* ---------------------------------------------------------------- C14

\* The maximal runs of ASCII letters of the text: the stretches of letters
\* with no letter right before and none right after.
MaximalRuns(text) ==
  { SubSeq(text, i, j) : << i, j >> \in
      { ij \in (1..Len(text)) \X (1..Len(text)) :
          /\ ij[1] <= ij[2]
          /\ \A k \in ij[1]..ij[2] : IsAsciiLetter(text[k])
          /\ (ij[1] = 1 \/ ~IsAsciiLetter(text[ij[1] - 1]))
          /\ (ij[2] = Len(text) \/ ~IsAsciiLetter(text[ij[2] + 1])) } }

\* The stoplist, as the specification lists it.
StopList ==
  { << "u", "l" >>,
    << "s", "t", "r", "o", "n", "g" >>,
    << "p" >>,
    << "l", "i" >>,
    << "b", "r" >>,
    << "a" >>,
    << "e", "m" >>,
    << "o", "l" >>,
    << "c", "o", "m" >>,
    << "i", "o" >>,
    << "q", "u", "o", "t" >>,
    << "q", "u", "o", "t", "e" >>,
    << "j", "u", "n", "i", "o", "r" >>,
    << "h", "r" >>,
    << "m", "i", "d", "d", "l", "e" >>,
    << "t", "e", "a", "m", "l", "e", "a", "d" >>,
    << "s", "e", "n", "i", "o", "r" >> }

\* C14: for every text that passes the Cyrillic guard, _parse_text returns
\* exactly the set of lowercased maximal ASCII-letter runs of the text minus
\* the stoplist; no token of the stoplist is ever in the result, in any
\* letter case of the input.
C14_LoweredRunsMinusStoplist ==
  (call.fn = "_parse_text" /\ call.st = "returned")
    => /\ HasCyrRun(call.args[1])
            => call.result = { Lower(w) : w \in MaximalRuns(call.args[1]) } \ StopList
       /\ call.result \cap StopList = {}

\* A text with five Cyrillic letters, the tag <STRONG> and the word Flask has
\* given {flask}.
C14_Witness ==
  /\ call.fn = "_parse_text"
  /\ call.st = "returned"
  /\ call.args[1] = Cyr5 \o << "<", "S", "T", "R", "O", "N", "G", ">" >> \o S_Flask
  /\ call.result = { S_flask }


\* ---------------------------------------------------------------- C15

\* C15: if every fetch eventually returns or fails and the worker threads
\* are scheduled fairly, every page task eventually completes and
\* _parse_pages eventually returns one finished result; it never returns
\* while a page task is still pending or running.
C15_ReturnsWhenAllPagesDone ==
  /\ (pc = "parse_pages") ~> (pc = "returned" /\ Len(ret) = 1)
  /\ [](pc = "returned" => \A p \in DOMAIN fs : fs[p].st \in {"done", "failed"})

\* _parse_pages has returned after two page tasks, one that failed and one
\* that returned its counter.
C15_Witness ==
  /\ pc = "returned"
  /\ Len(ret) = 1
  /\ Cardinality(DOMAIN fs) = 2
  /\ FailedPages # {}
  /\ OkPages # {}


\* ---------------------------------------------------------------- C16

\* C16: the aggregate is modified only by the merge step of the thread of
\* _parse_pages, one completed page result at a time: every step that changes
\* stat is taken inside the loop over as_completed, yields exactly one page
\* that returned its counter and was not yielded before, adds exactly that
\* counter, and is no step of a page worker or an item worker (no future
\* changes in it).
C16_OnlyMergeWritesAggregate ==
  [][stat' # stat =>
       /\ pc = "as_completed"
       /\ pc' = pc
       /\ fs' = fs
       /\ \E p \in OkPages :
            /\ \A k \in 1..Len(yielded) : yielded[k] # p
            /\ yielded' = Append(yielded, p)
            /\ stat' = CounterUpdate(stat, fs[p].res)]_vars

\* One page has been merged into a non-empty aggregate while a worker is
\* still running another page.
C16_Witness ==
  /\ pc = "as_completed"
  /\ Len(yielded) = 1
  /\ stat # << >>
  /\ RunningPages # {}


\* ---------------------------------------------------------------- C18

\* C18: for a reported page count totalPages >= 0 the run processes exactly
\* the page ids 0..totalPages: no page is listed more than once (a failed
\* page is never retried), no page is yielded to the merge more than once,
\* no page outside 0..totalPages is submitted or requested, and when
\* _parse_pages returns every page of 0..totalPages has been listed once.
C18_PagesZeroToTotalOnce ==
  /\ \A p \in PageNums : net.list[p] <= 1
  /\ \A j, k \in 1..Len(yielded) : yielded[j] = yielded[k] => j = k
  /\ (pc \in {"as_completed", "returned"} /\ info.pages >= 0)
       => /\ DOMAIN fs = 0..info.pages
          /\ \A p \in PageNums \ (0..info.pages) : net.list[p] = 0
  /\ (pc = "returned" /\ info.pages >= 0)
       => /\ \A p \in 0..info.pages : net.list[p] = 1
          /\ ToSet(yielded) = 0..info.pages

\* A run with totalPages = 1 has returned after pages 0 and 1, one of which
\* failed and was listed once.
C18_Witness ==
  /\ pc = "returned"
  /\ info.pages = 1
  /\ DOMAIN fs = { 0, 1 }
  /\ \E p \in FailedPages : fs[p].exc = "list_error" /\ net.list[p] = 1
  /\ Len(yielded) = 2

\* ---------------------------------------------------------------- C19

\* C19: within a page a failing item task never cancels or prevents a
\* sibling: when the page task has produced its result or the failure of
\* one of its items, every item task submitted for the page, one per listed
\* id, has issued its fetch and has ended in success or in failure.
C19_ItemsCompleteBeforePageEnds ==
  \A p \in DOMAIN fs :
    (fs[p].st \in {"done", "failed"} /\ fs[p].exc # "list_error")
      => /\ Len(fs[p].items) = Len(fs[p].ids)
         /\ \A i \in 1..Len(fs[p].items) : fs[p].items[i].st \in {"ok", "failed"}
         /\ net.item[p] = Len(fs[p].ids)

\* A page task has failed on one item while its sibling has ended in
\* success.
C19_Witness ==
  \E p \in FailedPages :
    /\ fs[p].exc = "item_error"
    /\ Len(fs[p].items) = 2
    /\ \E i, j \in 1..2 : fs[p].items[i].st = "failed" /\ fs[p].items[j].st = "ok"

\* ---------------------------------------------------------------- C20

\* The item tasks of page p that have issued their fetch.
IssuedItems(p) == { i \in 1..Len(fs[p].items) : fs[p].items[i].st # "queued" }

\* C20: for every page, no item fetch is issued before the listing fetch of
\* the page has succeeded, item fetches are issued only for ids the listing
\* returned, one per item task, and when the listing fetch fails the page
\* task fails with no item fetch issued for the page.
C20_ItemsOnlyAfterListing ==
  \A p \in DOMAIN fs :
    /\ net.item[p] = Cardinality(IssuedItems(p))
    /\ Len(fs[p].items) <= Len(fs[p].ids)
    /\ fs[p].st \in {"queued", "listing"} => net.item[p] = 0
    /\ net.item[p] > 0 => (net.list[p] = 1 /\ fs[p].exc # "list_error")
    /\ fs[p].exc = "list_error"
         => (fs[p].st = "failed" /\ fs[p].items = << >> /\ net.item[p] = 0)

\* A page has failed on its listing fetch with no item fetch issued, while
\* another page has issued item fetches.
C20_Witness ==
  /\ \E p \in FailedPages :
       fs[p].exc = "list_error" /\ net.list[p] = 1 /\ net.item[p] = 0
  /\ \E q \in DOMAIN fs : net.item[q] > 0


\* ---------------------------------------------------------------- C17

\* The fetches in flight: one per page task in its listing fetch and one per
\* running item task.
InFlight == pool.listing + pool.ir

\* C17: at most MAIN_WORKERS (8) page tasks are running, a running page
\* task has at most PAGE_WORKERS (16) item fetches in flight, the outer
\* limit is smaller than the inner limit, and the fetches in flight never
\* exceed outer x inner (128).
C17_BoundedConcurrency ==
  /\ MAIN_WORKERS = 8
  /\ PAGE_WORKERS = 16
  /\ pool.listing + pool.items <= MAIN_WORKERS
  /\ pool.ir <= PAGE_WORKERS
  /\ MAIN_WORKERS < PAGE_WORKERS
  /\ InFlight <= (pool.listing + pool.items) * PAGE_WORKERS
  /\ InFlight <= MAIN_WORKERS * PAGE_WORKERS

\* Both executors are full with tasks waiting: 8 page tasks are running and
\* another is queued, and the page in _get_skills has 16 item fetches in
\* flight and another item task queued.
C17_Witness ==
  /\ pool.listing + pool.items = MAIN_WORKERS
  /\ pool.queued > 0
  /\ pool.ir = PAGE_WORKERS
  /\ pool.iq > 0

====
